---------------------------- MODULE Spec2Model ----------------------------
(***************************************************************************)
(* Model of netser_signatures: the SignatureDatabase (an ordered list of   *)
(* Signature records with add / remove / lookup / save / load) and the     *)
(* SignatureDetector built on it.                                          *)
(*                                                                         *)
(* Text (protocols, patterns, decoded samples) is a sequence of Unicode    *)
(* code points and a byte sample is a sequence of integers 0..255, so that *)
(* str.lower, bytes.decode and the substring test are computed.  Names     *)
(* and descriptions are only ever compared for equality and are TLA+       *)
(* strings.  Confidence values are in hundredths (0.95 is 95).  An         *)
(* Optional value is <<>> for None and <<v>> for a supplied v.             *)
(***************************************************************************)
EXTENDS Integers, Sequences, FiniteSets

VARIABLES
    signatures,   \* object -> its .signatures list; "db" is the application's
                  \* SignatureDatabase, "own" the one a detector constructs itself,
                  \* "snap" the list object get_all_signatures creates
    database,     \* SignatureDetector.database: the object the detector refers to
    file,         \* Optional content of the file written by save_to_file
    snapshot,     \* Optional object: the list get_all_signatures returned last
    last          \* the last call: [op, arg, ret, before]

vars == <<signatures, database, file, snapshot, last>>

\* the record of a call: the operation, its argument, what it returned and
\* the application database's list before the call
Call(op, arg, ret) ==
    [op |-> op, arg |-> arg, ret |-> ret, before |-> signatures["db"]]

\* ---------------------------------------------------------------- bounds
\* most entries of a database that are not built-in signatures
MaxCustom == 1
\* longest generated byte sample
MaxData == 3
\* longest query list given to detect_multiple
MaxQueries == 2
\* most add_match calls on one DetectionResult
MaxMatches == 3
\* most entries deleted from a list get_all_signatures returned
MaxDeleted == 1

\* ---------------------------------------------------------------- values
None == <<>>
Some(v) == <<v>>

Range(s) == {s[i] : i \in DOMAIN s}

\* text literals, as code points
s_tcp == <<116, 99, 112>>
s_TCP == <<84, 67, 80>>
s_udp == <<117, 100, 112>>
s_UDP == <<85, 68, 80>>
s_AA == <<65, 65>>
s_HTTP11 == <<72, 84, 84, 80, 47, 49, 46, 49>>
s_HTTP10 == <<72, 84, 84, 80, 47, 49, 46, 48>>
s_GET == <<71, 69, 84, 32>>
s_POST == <<80, 79, 83, 84, 32>>
s_TLS == <<84, 76, 83>>
s_SSL == <<83, 83, 76>>
s_SSH20 == <<83, 83, 72, 45, 50, 46, 48>>
s_SSH199 == <<83, 83, 72, 45, 49, 46, 57, 57>>
s_220 == <<50, 50, 48, 32>>
s_USER == <<85, 83, 69, 82, 32>>
s_PASS == <<80, 65, 83, 83, 32>>
s_EHLO == <<69, 72, 76, 79, 32>>
s_HELO == <<72, 69, 76, 79, 32>>
s_PONG == <<43, 80, 79, 78, 71>>
s_ERR == <<45, 69, 82, 82>>

\* str.lower() on the ASCII letters
lower(s) == [i \in DOMAIN s |-> IF s[i] \in 65..90 THEN s[i] + 32 ELSE s[i]]

\* `pattern in data_str`: literal substring containment
IsSubstring(p, t) ==
    \E i \in 0..(Len(t) - Len(p)) : SubSeq(t, i + 1, i + Len(p)) = p

\* ---------------------------------------------------------------- Signature
\* Signature.__init__: protocol is lowercased, patterns None or empty is []
Signature(name, port, protocol, patterns, description) ==
    [name |-> name,
     port |-> port,
     protocol |-> lower(protocol),
     patterns |-> IF patterns = None \/ patterns[1] = <<>> THEN <<>> ELSE patterns[1],
     description |-> description]

\* Signature.to_dict
to_dict(sig) ==
    [name |-> sig.name,
     port |-> sig.port,
     protocol |-> sig.protocol,
     patterns |-> sig.patterns,
     description |-> sig.description]

\* dict.get(key, default)
get(d, key, default) == IF key \in DOMAIN d THEN d[key] ELSE default

\* data["name"], data["port"] raise KeyError when the key is missing
RaisesKeyError(d) == ~ ("name" \in DOMAIN d /\ "port" \in DOMAIN d)

\* from_dict that forgets the record's protocol and takes the default
from_dict_default_protocol(d) ==
    Signature(d["name"], d["port"], s_tcp,
              Some(get(d, "patterns", <<>>)),
              get(d, "description", ""))

\* Signature.from_dict, for a record that has name and port
from_dict(d) ==
    Signature(d["name"], d["port"],
              get(d, "protocol", s_tcp),
              Some(get(d, "patterns", <<>>)),
              get(d, "description", ""))

\* matches_port that compares the protocol as written
matches_port_case_sensitive(sig, port, protocol) ==
    sig.port = port /\ sig.protocol = protocol

\* Signature.matches_port
matches_port(sig, port, protocol) ==
    sig.port = port /\ lower(sig.protocol) = lower(protocol)

\* ---------------------------------------------------------------- SignatureDatabase
\* SignatureDatabase._load_default_signatures
default_signatures ==
    << Signature("HTTP", 80, s_tcp, Some(<<s_HTTP11, s_HTTP10, s_GET, s_POST>>),
                 "Hypertext Transfer Protocol"),
       Signature("HTTPS", 443, s_tcp, Some(<<s_TLS, s_SSL>>),
                 "Secure HTTP over TLS/SSL"),
       Signature("SSH", 22, s_tcp, Some(<<s_SSH20, s_SSH199>>),
                 "Secure Shell Protocol"),
       Signature("FTP", 21, s_tcp, Some(<<s_220, s_USER, s_PASS>>),
                 "File Transfer Protocol"),
       Signature("SMTP", 25, s_tcp, Some(<<s_220, s_EHLO, s_HELO>>),
                 "Simple Mail Transfer Protocol"),
       Signature("DNS", 53, s_udp, Some(<<>>), "Domain Name System"),
       Signature("MySQL", 3306, s_tcp, Some(<<>>), "MySQL Database"),
       Signature("PostgreSQL", 5432, s_tcp, Some(<<>>), "PostgreSQL Database"),
       Signature("Redis", 6379, s_tcp, Some(<<s_PONG, s_ERR>>),
                 "Redis In-Memory Database"),
       Signature("MongoDB", 27017, s_tcp, Some(<<>>), "MongoDB NoSQL Database") >>

\* add_signature that inserts at the front
add_signature_front(sigs, signature) == <<signature>> \o sigs

\* SignatureDatabase.add_signature
add_signature(sigs, signature) == Append(sigs, signature)

\* indices of the entries called `name`
NameIndices(sigs, name) == {i \in DOMAIN sigs : sigs[i].name = name}

Min(S) == CHOOSE x \in S : \A y \in S : x <= y

Max(S) == CHOOSE x \in S : \A y \in S : x >= y

\* the list without its i-th entry (del self.signatures[i])
Del(sigs, i) == SubSeq(sigs, 1, i - 1) \o SubSeq(sigs, i + 1, Len(sigs))

\* remove_signature that deletes the last entry of that name
remove_signature_last(sigs, name) ==
    IF NameIndices(sigs, name) = {}
    THEN [signatures |-> sigs, ret |-> FALSE]
    ELSE [signatures |-> Del(sigs, Max(NameIndices(sigs, name))), ret |-> TRUE]

\* SignatureDatabase.remove_signature: the list afterwards and the value returned
remove_signature(sigs, name) ==
    IF NameIndices(sigs, name) = {}
    THEN [signatures |-> sigs, ret |-> FALSE]
    ELSE [signatures |-> Del(sigs, Min(NameIndices(sigs, name))), ret |-> TRUE]

\* SignatureDatabase.find_by_name: Optional[Signature]
find_by_name(sigs, name) ==
    IF NameIndices(sigs, name) = {}
    THEN None
    ELSE Some(sigs[Min(NameIndices(sigs, name))])

\* SignatureDatabase.find_by_port
find_by_port(sigs, port, protocol) ==
    SelectSeq(sigs, LAMBDA sig : matches_port(sig, port, protocol))

\* get_all_signatures that reverses the database's list before copying it
get_all_signatures_reversed(lists) ==
    [ret |-> "snap",
     lists |-> [lists EXCEPT
                    !["db"] = [i \in DOMAIN @ |-> @[Len(@) + 1 - i]],
                    !["snap"] = [i \in DOMAIN lists["db"] |->
                                     lists["db"][Len(lists["db"]) + 1 - i]]]]

\* get_all_signatures that returns the database's own list
get_all_signatures_alias(lists) == [ret |-> "db", lists |-> lists]

\* SignatureDatabase.get_all_signatures of "db": `self.signatures.copy()` makes
\* a new list object, "snap", that holds the entries of the database's list;
\* the object returned and the lists afterwards
get_all_signatures(lists) ==
    [ret |-> "snap", lists |-> [lists EXCEPT !["snap"] = lists["db"]]]

\* SignatureDatabase.save_to_file: the record list written
save_to_file(sigs) == [i \in DOMAIN sigs |-> to_dict(sigs[i])]

\* records of `data` before the first one that raises KeyError
GoodPrefixLen(data) ==
    IF \E i \in DOMAIN data : RaisesKeyError(data[i])
    THEN Min({i \in DOMAIN data : RaisesKeyError(data[i])}) - 1
    ELSE Len(data)

\* load_from_file that appends the file's signatures to the collection
load_from_file_merge(sigs, data) ==
    [signatures |-> sigs \o [i \in 1..GoodPrefixLen(data) |-> from_dict(data[i])],
     ret |-> IF GoodPrefixLen(data) = Len(data) THEN "ok" ELSE "KeyError"]

\* SignatureDatabase.load_from_file on a file that holds `data`: the list is
\* emptied, then one Signature is appended per record until one raises
load_from_file(sigs, data) ==
    [signatures |-> [i \in 1..GoodPrefixLen(data) |-> from_dict(data[i])],
     ret |-> IF GoodPrefixLen(data) = Len(data) THEN "ok" ELSE "KeyError"]

\* SignatureDatabase.__len__
len(sigs) == Len(sigs)

\* bytes.decode('utf-8', errors=...) for samples made of ASCII bytes, two-byte
\* sequences (lead 0xC2..0xDF, continuation 0x80..0xBF) and bytes that start
\* no sequence; the samples of this model hold no lead byte 0xE0..0xF4.  An
\* undecodable byte is skipped under 'ignore' and becomes U+FFFD under 'replace'.
RECURSIVE decode_from(_, _, _)
decode_from(data, i, errors) ==
    IF i > Len(data) THEN <<>>
    ELSE IF data[i] < 128 THEN <<data[i]>> \o decode_from(data, i + 1, errors)
    ELSE IF /\ data[i] \in 194..223
            /\ i + 1 <= Len(data)
            /\ data[i + 1] \in 128..191
         THEN <<(data[i] - 192) * 64 + (data[i + 1] - 128)>>
                  \o decode_from(data, i + 2, errors)
    ELSE (IF errors = "replace" THEN <<65533>> ELSE <<>>)
             \o decode_from(data, i + 1, errors)

decode(data, errors) == decode_from(data, 1, errors)

\* matches_pattern that decodes with errors='replace'
matches_pattern_replace(sig, data) ==
    /\ sig.patterns # <<>>
    /\ LET data_str == decode(data, "replace")
       IN  \E i \in DOMAIN sig.patterns : IsSubstring(sig.patterns[i], data_str)

\* Signature.matches_pattern
matches_pattern(sig, data) ==
    /\ sig.patterns # <<>>
    /\ LET data_str == decode(data, "ignore")
       IN  \E i \in DOMAIN sig.patterns : IsSubstring(sig.patterns[i], data_str)

\* find_by_pattern that stops at the first matching entry
find_by_pattern_first(sigs, data) ==
    LET found == SelectSeq(sigs, LAMBDA sig : matches_pattern(sig, data))
    IN  IF found = <<>> THEN <<>> ELSE <<Head(found)>>

\* SignatureDatabase.find_by_pattern
find_by_pattern(sigs, data) ==
    SelectSeq(sigs, LAMBDA sig : sig.patterns # <<>> /\ matches_pattern(sig, data))

\* ---------------------------------------------------------------- DetectionResult
\* confidence constants, in hundredths
ConfPortOnly == 70
ConfPattern == 95
ConfPatternAndPort == 100
ConfFallback == 50

\* DetectionResult.__init__
DetectionResult(port, protocol) ==
    [port |-> port, protocol |-> protocol, matches |-> <<>>, confidence |-> 0]

\* add_match that keeps the confidence of the latest match
add_match_overwrite(result, signature, confidence) ==
    [result EXCEPT !.matches = Append(@, signature),
                   !.confidence = confidence]

\* DetectionResult.add_match
add_match(result, signature, confidence) ==
    [result EXCEPT !.matches = Append(@, signature),
                   !.confidence = IF confidence > @ THEN confidence ELSE @]

\* DetectionResult.get_best_match
get_best_match(result) ==
    IF Len(result.matches) = 0 THEN None ELSE Some(result.matches[1])

\* ---------------------------------------------------------------- SignatureDetector
\* truth value of an Optional[int]: None and 0 are falsy
Truthy(port) == port # None /\ port[1] # 0

\* truth value of an Optional[bytes]: None and b"" are falsy
TruthyData(data) == data # None /\ data[1] # <<>>

\* `for match in matches: result.add_match(match, confidence=c)`
RECURSIVE add_all(_, _, _)
add_all(result, matches, c) ==
    IF matches = <<>> THEN result
    ELSE add_all(add_match(result, Head(matches), c), Tail(matches), c)

\* detect_by_port that adds its matches with the fallback confidence
detect_by_port_fallback(sigs, port, protocol) ==
    add_all(DetectionResult(port, protocol),
            find_by_port(sigs, port, protocol), ConfFallback)

\* SignatureDetector.detect_by_port
detect_by_port(sigs, port, protocol) ==
    add_all(DetectionResult(port, protocol),
            find_by_port(sigs, port, protocol), ConfPortOnly)

\* the loop over pattern_matches in detect_by_data
RECURSIVE add_pattern_matches(_, _, _, _)
add_pattern_matches(result, matches, port, protocol) ==
    IF matches = <<>> THEN result
    ELSE add_pattern_matches(
             add_match(result, Head(matches),
                       IF Truthy(port) /\ matches_port(Head(matches), port[1], protocol)
                       THEN ConfPatternAndPort ELSE ConfPattern),
             Tail(matches), port, protocol)

\* SignatureDetector.detect_by_data; port is Optional
detect_by_data(sigs, data, port, protocol) ==
    LET pattern_matches == find_by_pattern(sigs, data)
        result == add_pattern_matches(
                      DetectionResult(IF Truthy(port) THEN port[1] ELSE 0, protocol),
                      pattern_matches, port, protocol)
    IN  IF pattern_matches = <<>> /\ Truthy(port)
        THEN add_all(result, find_by_port(sigs, port[1], protocol), ConfFallback)
        ELSE result

\* SignatureDetector.detect; data is Optional
detect(sigs, port, protocol, data) ==
    IF TruthyData(data)
    THEN detect_by_data(sigs, data[1], Some(port), protocol)
    ELSE detect_by_port(sigs, port, protocol)

\* service.get(key): None when the key is missing
get_opt(d, key) == IF key \in DOMAIN d THEN Some(d[key]) ELSE None

\* detect_multiple that gives a skipped query an empty result
RECURSIVE detect_multiple_placeholder(_, _)
detect_multiple_placeholder(sigs, services) ==
    IF services = <<>> THEN <<>>
    ELSE LET service == Head(services)
             port == get_opt(service, "port")
             protocol == get(service, "protocol", s_tcp)
             data == get_opt(service, "data")
         IN  (IF Truthy(port)
              THEN <<detect(sigs, port[1], protocol, data)>>
              ELSE <<DetectionResult(0, protocol)>>)
                 \o detect_multiple_placeholder(sigs, Tail(services))

\* SignatureDetector.detect_multiple
RECURSIVE detect_multiple(_, _)
detect_multiple(sigs, services) ==
    IF services = <<>> THEN <<>>
    ELSE LET service == Head(services)
             port == get_opt(service, "port")
             protocol == get(service, "protocol", s_tcp)
             data == get_opt(service, "data")
         IN  (IF Truthy(port)
              THEN <<detect(sigs, port[1], protocol, data)>>
              ELSE <<>>)
                 \o detect_multiple(sigs, Tail(services))

\* ---------------------------------------------------------------- inputs
\* Signature(...) calls the application makes
NewSignatures ==
    { Signature("CUSTOM", 9999, s_tcp, None, ""),
      Signature("HTTP", 0, s_TCP, Some(<<s_AA>>), "second HTTP"),
      Signature("CUSTOM", 80, s_tcp, Some(<<s_HTTP11>>), "second CUSTOM") }

Names == {"HTTP", "http", "CUSTOM", "NONEXISTENT"}

\* files found on disk besides the one save_to_file writes
ExternalFiles ==
    [ wellformed |-> << [name |-> "X", port |-> 0, protocol |-> s_UDP],
                        [name |-> "HTTP", port |-> 80, patterns |-> <<s_AA>>,
                         description |-> "imported"] >>,
      noport |-> << [name |-> "X", port |-> 1], [name |-> "Y"],
                    [name |-> "Z", port |-> 2] >>,
      noname |-> << [port |-> 5, protocol |-> s_tcp] >>,
      shared |-> << [name |-> "A", port |-> 80, patterns |-> <<s_AA>>],
                    [name |-> "B", port |-> 0, patterns |-> <<s_AA>>] >>,
      empty |-> << >> ]

FilePaths == DOMAIN ExternalFiles \cup {"saved"}

\* Optional content of the file at `path`
FileContent(path) == IF path = "saved" THEN file ELSE Some(ExternalFiles[path])

\* banners
b_HTTP_200 == <<72, 84, 84, 80, 47, 49, 46, 49, 32, 50, 48, 48, 32, 79, 75, 13, 10>>
b_UNKNOWN == <<85, 78, 75, 78, 79, 87, 78, 32, 80, 82, 79, 84, 79, 67, 79, 76,
               32, 68, 65, 84, 65>>
b_220_ready == <<50, 50, 48, 32, 114, 101, 97, 100, 121>>

Banners == {b_HTTP_200, b_UNKNOWN, b_220_ready}

\* 'A', a two-byte lead, a continuation byte, a byte that is never valid
ByteAlphabet == {65, 195, 169, 255}

RECURSIVE BytesUpTo(_)
BytesUpTo(n) ==
    IF n = 0 THEN {<<>>}
    ELSE BytesUpTo(n - 1)
         \cup {Append(d, b) : d \in {x \in BytesUpTo(n - 1) : Len(x) = n - 1},
                              b \in ByteAlphabet}

\* samples given to find_by_pattern
Samples == Banners \cup BytesUpTo(MaxData)

\* samples given to the detector
DetectSamples == Banners \cup {<<>>, <<65, 65>>, <<65, 255, 65>>}

Ports == {0, 21, 80}
OptPorts == {None} \cup {Some(p) : p \in Ports}
Protocols == {s_tcp, s_TCP, s_udp}

\* ports of further lookups: SMTP, DNS and a port no signature has
LookupPorts == Ports \cup {25, 53, 99999}
OptLookupPorts == {None} \cup {Some(p) : p \in LookupPorts}

\* samples of the results whose best match is asked for
BestMatchSamples == {b_220_ready, b_UNKNOWN, <<65, 65>>}

\* query dicts given to detect_multiple
Queries ==
    { [port |-> 80],
      [port |-> 0, protocol |-> s_tcp, data |-> b_HTTP_200],
      [protocol |-> s_udp],
      [port |-> 21, protocol |-> s_TCP, data |-> b_220_ready] }

RECURSIVE QueryLists(_)
QueryLists(n) ==
    IF n = 0 THEN {<<>>}
    ELSE QueryLists(n - 1)
         \cup {Append(l, q) : l \in {x \in QueryLists(n - 1) : Len(x) = n - 1},
                              q \in Queries}

\* query lists given to detect_multiple
QueryListPool == QueryLists(MaxQueries)

CustomCount(sigs) ==
    Cardinality({i \in DOMAIN sigs : sigs[i] \notin Range(default_signatures)})

\* ---------------------------------------------------------------- state
\* db = SignatureDatabase(); detector = SignatureDetector(database=db).
\* No database of the detector's own exists yet.
Init ==
    /\ signatures = [db |-> default_signatures, own |-> <<>>, snap |-> <<>>]
    /\ database = "db"
    /\ file = None
    /\ snapshot = None
    /\ last = [op |-> "init", arg |-> None, ret |-> None, before |-> <<>>]

\* db.add_signature(sig)
AddSignature ==
    \E sig \in NewSignatures :
        /\ CustomCount(signatures["db"]) < MaxCustom
        /\ signatures' = [signatures EXCEPT !["db"] = add_signature(@, sig)]
        /\ last' = Call("add_signature", sig, None)
        /\ UNCHANGED <<database, file, snapshot>>

\* db.remove_signature(name)
RemoveSignature ==
    \E name \in Names :
        /\ signatures' =
               [signatures EXCEPT !["db"] = remove_signature(@, name).signatures]
        /\ last' = Call("remove_signature", name,
                        remove_signature(signatures["db"], name).ret)
        /\ UNCHANGED <<database, file, snapshot>>

\* db.find_by_name(name)
FindByName ==
    \E name \in Names :
        /\ last' = Call("find_by_name", name, find_by_name(signatures["db"], name))
        /\ UNCHANGED <<signatures, database, file, snapshot>>

\* db.save_to_file(path)
SaveToFile ==
    /\ file' = Some(save_to_file(signatures["db"]))
    /\ last' = Call("save_to_file", "saved", None)
    /\ UNCHANGED <<signatures, database, snapshot>>

\* db.load_from_file(path); open() raises when there is no such file
LoadFromFile ==
    \E path \in FilePaths :
        /\ IF FileContent(path) = None
           THEN /\ last' = Call("load_from_file", path, "FileNotFoundError")
                /\ UNCHANGED signatures
           ELSE /\ signatures' =
                       [signatures EXCEPT !["db"] =
                            load_from_file(@, FileContent(path)[1]).signatures]
                /\ last' = Call("load_from_file", path,
                                load_from_file(signatures["db"],
                                               FileContent(path)[1]).ret)
        /\ UNCHANGED <<database, file, snapshot>>

\* SignatureDetector.__init__: `database or SignatureDatabase()`; an object with
\* __len__ is falsy when its length is 0
SignatureDetector(arg) ==
    IF arg # None /\ len(signatures[arg[1]]) # 0
    THEN [database |-> arg[1], signatures |-> signatures]
    ELSE [database |-> "own",
          signatures |-> [signatures EXCEPT !["own"] = default_signatures]]

\* detector = SignatureDetector() or SignatureDetector(database=db)
NewDetector ==
    \E arg \in {None, Some("db")} :
        /\ database' = SignatureDetector(arg).database
        /\ signatures' = SignatureDetector(arg).signatures
        /\ last' = Call("SignatureDetector", arg, None)
        /\ UNCHANGED <<file, snapshot>>

Next ==
    \/ AddSignature
    \/ RemoveSignature
    \/ FindByName
    \/ SaveToFile
    \/ LoadFromFile
    \/ NewDetector

Spec == Init /\ [][Next]_vars

\* the list of the database the detector refers to
DetectorSignatures == signatures[database]

\* db.find_by_pattern(data), data one of `samples`
FindByPattern(samples) ==
    \E data \in samples :
        /\ last' = Call("find_by_pattern", data, find_by_pattern(signatures["db"], data))
        /\ UNCHANGED <<signatures, database, file, snapshot>>

\* detector.detect_by_data(data, port, protocol), the arguments taken from
\* the given sets
DetectByData(samples, ports, protocols) ==
    \E data \in samples, port \in ports, protocol \in protocols :
        /\ last' = Call("detect_by_data",
                        [data |-> data, port |-> port, protocol |-> protocol],
                        detect_by_data(DetectorSignatures, data, port, protocol))
        /\ UNCHANGED <<signatures, database, file, snapshot>>

\* detector.detect(port, protocol, data), data absent or one of `samples`
Detect(samples, ports, protocols) ==
    \E port \in ports, protocol \in protocols,
       data \in {None} \cup {Some(d) : d \in samples} :
        /\ last' = Call("detect",
                        [data |-> data, port |-> port, protocol |-> protocol],
                        detect(DetectorSignatures, port, protocol, data))
        /\ UNCHANGED <<signatures, database, file, snapshot>>

\* detector.detect_multiple(services), services one of `lists`
DetectMultiple(lists) ==
    \E services \in lists :
        /\ last' = Call("detect_multiple", services,
                        detect_multiple(DetectorSignatures, services))
        /\ UNCHANGED <<signatures, database, file, snapshot>>

\* the database's contents change while the detector answers queries
NextDetect ==
    \/ AddSignature
    \/ RemoveSignature
    \/ LoadFromFile
    \/ DetectByData(DetectSamples, OptPorts, Protocols)
    \/ Detect(DetectSamples, Ports, Protocols)

SpecDetect == Init /\ [][NextDetect]_vars

\* the database's contents change while the detector answers batches
NextMultiple ==
    \/ AddSignature
    \/ RemoveSignature
    \/ LoadFromFile
    \/ DetectMultiple(QueryListPool)

SpecMultiple == Init /\ [][NextMultiple]_vars

\* signatures are added while samples are matched against the database
NextPattern ==
    \/ AddSignature
    \/ FindByPattern(Samples)

SpecPattern == Init /\ [][NextPattern]_vars

\* detector.detect_by_data(data, port, protocol).get_best_match()
GetBestMatch ==
    \E data \in BestMatchSamples, port \in OptLookupPorts, protocol \in Protocols :
        LET result == detect_by_data(DetectorSignatures, data, port, protocol)
        IN  /\ last' = Call("get_best_match",
                            [data |-> data, port |-> port, protocol |-> protocol],
                            [result |-> result, best |-> get_best_match(result)])
            /\ UNCHANGED <<signatures, database, file, snapshot>>

\* signatures are added and imported while best matches are asked for
NextBest ==
    \/ AddSignature
    \/ LoadFromFile
    \/ GetBestMatch

SpecBest == Init /\ [][NextBest]_vars

\* db.find_by_port(port, protocol), the arguments taken from the given sets
FindByPort(ports, protocols) ==
    \E port \in ports, protocol \in protocols :
        /\ last' = Call("find_by_port", [port |-> port, protocol |-> protocol],
                        find_by_port(signatures["db"], port, protocol))
        /\ UNCHANGED <<signatures, database, file, snapshot>>

\* detector.detect_by_port(port, protocol), the arguments taken from the
\* given sets
DetectByPort(ports, protocols) ==
    \E port \in ports, protocol \in protocols :
        /\ last' = Call("detect_by_port", [port |-> port, protocol |-> protocol],
                        detect_by_port(DetectorSignatures, port, protocol))
        /\ UNCHANGED <<signatures, database, file, snapshot>>

\* the database's contents change while ports are looked up
NextPort ==
    \/ AddSignature
    \/ RemoveSignature
    \/ LoadFromFile
    \/ FindByPort(LookupPorts, Protocols)
    \/ DetectByPort(LookupPorts, Protocols)

SpecPort == Init /\ [][NextPort]_vars

\* signatures and confidences given to add_match
MatchSignatures == {default_signatures[1], default_signatures[2]}
MatchConfidences == {ConfFallback, ConfPortOnly, ConfPattern, ConfPatternAndPort}

\* result = DetectionResult(port, protocol); `arg` lists the add_match calls
\* made on the result so far
NewResult ==
    \E port \in Ports :
        /\ last' = Call("DetectionResult", <<>>, DetectionResult(port, s_tcp))
        /\ UNCHANGED <<signatures, database, file, snapshot>>

\* result.add_match(signature, confidence) on the result made last
AddMatch ==
    \E signature \in MatchSignatures, confidence \in MatchConfidences :
        /\ last.op \in {"DetectionResult", "add_match"}
        /\ Len(last.arg) < MaxMatches
        /\ last' = Call("add_match",
                        Append(last.arg, [signature |-> signature,
                                          confidence |-> confidence]),
                        add_match(last.ret, signature, confidence))
        /\ UNCHANGED <<signatures, database, file, snapshot>>

\* a result is made and matches are added to it
NextResult ==
    \/ NewResult
    \/ AddMatch

SpecResult == Init /\ [][NextResult]_vars

\* all_sigs = db.get_all_signatures()
GetAllSignatures ==
    /\ snapshot' = Some(get_all_signatures(signatures).ret)
    /\ signatures' = get_all_signatures(signatures).lists
    /\ last' = Call("get_all_signatures", None, None)
    /\ UNCHANGED <<database, file>>

\* what the caller does to the list it was given: all_sigs.append(sig),
\* del all_sigs[0], all_sigs.reverse()
SnapshotChanges == {"append", "del", "reverse"}

Changed(list, change) ==
    CASE change = "append" -> Append(list, Signature("CUSTOM", 9999, s_tcp, None, ""))
      [] change = "del" -> Tail(list)
      [] change = "reverse" -> [i \in DOMAIN list |-> list[Len(list) + 1 - i]]

ChangeSnapshot ==
    \E change \in SnapshotChanges :
        /\ snapshot # None
        /\ change = "append" => CustomCount(signatures[snapshot[1]]) < MaxCustom
        /\ change = "del" =>
               /\ signatures[snapshot[1]] # <<>>
               /\ Len(default_signatures) - Len(signatures[snapshot[1]]) < MaxDeleted
        /\ signatures' = [signatures EXCEPT ![snapshot[1]] = Changed(@, change)]
        /\ last' = Call("snapshot_change", change, None)
        /\ UNCHANGED <<database, file, snapshot>>

\* the database and a list it returned are changed independently
NextSnapshot ==
    \/ AddSignature
    \/ RemoveSignature
    \/ GetAllSignatures
    \/ ChangeSnapshot

SpecSnapshot == Init /\ [][NextSnapshot]_vars

\* signatures are added between lookups and detections
NextReadOnly ==
    \/ AddSignature
    \/ FindByName
    \/ FindByPort({80}, {s_TCP})
    \/ FindByPattern({b_220_ready, b_UNKNOWN})
    \/ GetAllSignatures
    \/ SaveToFile
    \/ DetectByPort({80}, {s_tcp})
    \/ DetectByData({b_HTTP_200}, {None, Some(80)}, {s_tcp})
    \/ Detect({b_HTTP_200}, {80}, {s_tcp})
    \/ DetectMultiple({<<q>> : q \in {[port |-> 80], [protocol |-> s_udp]}})

SpecReadOnly == Init /\ [][NextReadOnly]_vars

\* ---------------------------------------------------------------- claims
Db == signatures["db"]

\* C1 (as stated): in a detect_by_data result with pattern matches, the
\* confidence is 1.0 exactly when a port was supplied (any value) and some
\* pattern match has that port and protocol, and 0.95 otherwise.
C1_ConfidenceRule ==
    last.op = "detect_by_data" =>
        LET a == last.arg
            pm == find_by_pattern(DetectorSignatures, a.data)
            confirmed == /\ a.port # None
                         /\ \E i \in DOMAIN pm :
                                matches_port(pm[i], a.port[1], a.protocol)
        IN  pm # <<>> =>
                last.ret.confidence =
                    IF confirmed THEN ConfPatternAndPort ELSE ConfPattern

\* C2 (as stated): when no pattern matched and a port was supplied (any
\* value), the matches are find_by_port(port, protocol), at confidence 0.5 if
\* there are any; otherwise the matches are the pattern matches alone.  The
\* result's port is the supplied port or 0, its protocol the supplied one.
C2_PortFallback ==
    last.op = "detect_by_data" =>
        LET a == last.arg
            pm == find_by_pattern(DetectorSignatures, a.data)
            fallback == find_by_port(DetectorSignatures, a.port[1], a.protocol)
        IN  /\ IF pm = <<>> /\ a.port # None
               THEN /\ last.ret.matches = fallback
                    /\ fallback # <<>> => last.ret.confidence = ConfFallback
               ELSE last.ret.matches = pm
            /\ last.ret.port = (IF a.port = None THEN 0 ELSE a.port[1])
            /\ last.ret.protocol = a.protocol

\* C3 (as stated): detect returns what detect_by_data returns whenever data is
\* supplied, an empty sample included, and what detect_by_port returns when
\* no data is supplied.
C3_DetectDispatch ==
    last.op = "detect" =>
        LET a == last.arg
        IN  last.ret =
                IF a.data # None
                THEN detect_by_data(DetectorSignatures, a.data[1], Some(a.port),
                                    a.protocol)
                ELSE detect_by_port(DetectorSignatures, a.port, a.protocol)

\* C4 (as stated): a detector constructed with a database refers to that very
\* database, whatever it holds.
C4_SharedReference ==
    (last.op = "SignatureDetector" /\ last.arg = Some("db")) => database = "db"

\* C5 (as stated): right after add(S), find_by_name(S.name) returns S, whether
\* or not another entry already has that name.
C5_AddThenFound ==
    last.op = "add_signature" => find_by_name(Db, last.arg.name) = Some(last.arg)

\* C5 (amended): when S is added to a database that has no entry named S.name,
\* find_by_name(S.name) returns S; and whatever find_by_name(n) returns, it
\* keeps returning it after every further operation except a successful
\* remove(n) and an import, so S is returned until it is removed.
C5_FoundUntilRemoved ==
    [][ /\ (last'.op = "add_signature"
              /\ NameIndices(Db, last'.arg.name) = {})
           => find_by_name(Db', last'.arg.name) = Some(last'.arg)
        /\ \A n \in Names :
             (/\ find_by_name(Db, n) # None
              /\ last'.op # "load_from_file"
              /\ ~ (last'.op = "remove_signature" /\ last'.arg = n /\ last'.ret))
             => find_by_name(Db', n) = find_by_name(Db, n) ]_vars

\* C5 witness: a signature was added under a name no entry had, and a later
\* find_by_name call returned it.
C5_Witness ==
    /\ last.op = "find_by_name"
    /\ last.arg = "CUSTOM"
    /\ last.ret # None
    /\ last.ret[1] \in NewSignatures

\* C6 (as stated): an import that fails leaves the collection as it was.
C6_FailedImportNoEffect ==
    (last.op = "load_from_file" /\ last.ret # "ok") => Db = last.before

\* the signatures of `sigs` with a pattern that is a substring of `text`
WithPatternIn(sigs, text) ==
    SelectSeq(sigs, LAMBDA sig :
                  \E i \in DOMAIN sig.patterns : IsSubstring(sig.patterns[i], text))

C8_RemoveFirstOnly ==
    last.op = "remove_signature" =>
        LET b == last.before
            idx == {i \in DOMAIN b : b[i].name = last.arg}
        IN  IF idx = {}
            THEN last.ret = FALSE /\ Db = b
            ELSE /\ last.ret = TRUE
                 /\ Len(Db) = Len(b) - 1
                 /\ \E i \in idx :
                      /\ \A j \in idx : i <= j
                      /\ \A k \in DOMAIN Db :
                           Db[k] = IF k < i THEN b[k] ELSE b[k + 1]
                 /\ Cardinality(NameIndices(Db, last.arg)) = Cardinality(idx) - 1

\* C8 witness: two entries had the name, the first was removed, the second
\* (a different signature) stays.
C8_Witness ==
    /\ last.op = "remove_signature"
    /\ last.ret = TRUE
    /\ Cardinality(NameIndices(last.before, last.arg)) = 2
    /\ Cardinality(NameIndices(Db, last.arg)) = 1
    /\ find_by_name(Db, last.arg) # find_by_name(last.before, last.arg)

\* C9: loading the file that save_to_file wrote for a database gives back the
\* same ordered sequence of signatures, equal in every field.
C9_RoundTrip ==
    (/\ last.op = "load_from_file"
     /\ last.arg = "saved"
     /\ file = Some(save_to_file(last.before)))
    => (last.ret = "ok" /\ Db = last.before)

\* C9 witness: a database holding built-in and added signatures was saved and
\* loaded back.
C9_Witness ==
    /\ last.op = "load_from_file"
    /\ last.arg = "saved"
    /\ file = Some(save_to_file(last.before))
    /\ CustomCount(Db) = MaxCustom
    /\ \E i \in DOMAIN Db : Db[i] \in Range(default_signatures)

\* C10: detect_multiple returns, in input order, one result per query whose
\* port is present and not zero, each the result of detect(port, protocol or
\* tcp, data); the other queries contribute nothing.
C10_DetectMultiple ==
    last.op = "detect_multiple" =>
        LET kept == SelectSeq(last.arg,
                              LAMBDA q : "port" \in DOMAIN q /\ q.port # 0)
        IN  /\ Len(last.ret) = Len(kept)
            /\ \A i \in DOMAIN kept :
                   last.ret[i] =
                       detect(DetectorSignatures, kept[i].port,
                              IF "protocol" \in DOMAIN kept[i]
                              THEN kept[i].protocol ELSE s_tcp,
                              IF "data" \in DOMAIN kept[i]
                              THEN Some(kept[i].data) ELSE None)

\* C10 witness: of two queries the first, without a usable port, was skipped
\* and the second produced the only result, with a match.
C10_Witness ==
    /\ last.op = "detect_multiple"
    /\ Len(last.arg) = 2
    /\ ("port" \notin DOMAIN last.arg[1] \/ last.arg[1].port = 0)
    /\ Len(last.ret) = 1
    /\ last.ret[1].port = last.arg[2].port
    /\ last.ret[1].matches # <<>>

\* C11 (as stated): get_best_match returns the first of the result's matches in
\* the order they were found, and nothing when there is none; when an earlier
\* match of a detect_by_data result does not have the supplied port and
\* protocol and a later one has, the best match is the earlier one and the
\* result's confidence is 1.0.
C11_BestMatchFirst ==
    last.op = "get_best_match" =>
        LET result == last.ret.result
            m == result.matches
            confirmed(i) ==
                /\ last.arg.port # None
                /\ matches_port(m[i], last.arg.port[1], last.arg.protocol)
        IN  /\ last.ret.best = IF m = <<>> THEN None ELSE Some(Head(m))
            /\ (\E i, j \in DOMAIN m : i < j /\ ~confirmed(i) /\ confirmed(j))
                   => /\ last.ret.best = Some(Head(m))
                      /\ result.confidence = ConfPatternAndPort

\* C12: detect_by_port(port, protocol) returns a result whose matches are
\* find_by_port(port, protocol) of the detector's database, in its order; the
\* confidence is 0.7 when there is a match, and 0.0 with no match (and no
\* error) when no entry has that port and protocol.
C12_DetectByPort ==
    last.op = "detect_by_port" =>
        LET sigs == DetectorSignatures
            found == find_by_port(sigs, last.arg.port, last.arg.protocol)
            known == \E i \in DOMAIN sigs :
                         /\ sigs[i].port = last.arg.port
                         /\ lower(sigs[i].protocol) = lower(last.arg.protocol)
        IN  /\ last.ret.matches = found
            /\ last.ret.port = last.arg.port
            /\ last.ret.protocol = last.arg.protocol
            /\ known => last.ret.matches # <<>> /\ last.ret.confidence = 70
            /\ ~known => last.ret.matches = <<>> /\ last.ret.confidence = 0

\* a port two entries have, asked for in upper case
C12_Witness ==
    /\ last.op = "detect_by_port"
    /\ last.arg.protocol = s_TCP
    /\ Len(last.ret.matches) = 2
    /\ last.ret.matches[1].name = "HTTP"
    /\ last.ret.matches[2].name = "CUSTOM"
    /\ last.ret.confidence = 70

\* C13: find_by_port(port, protocol) returns the entries whose port is the
\* query's and whose protocol is the query's up to letter case, in the order of
\* the database and nothing else; on the default database (80, tcp) gives HTTP
\* first and (53, udp) gives DNS first.
C13_FindByPort ==
    last.op = "find_by_port" =>
        LET sigs == last.before
            hits == {i \in DOMAIN sigs :
                        /\ sigs[i].port = last.arg.port
                        /\ lower(sigs[i].protocol) = lower(last.arg.protocol)}
            nth(k) == CHOOSE i \in hits : Cardinality({j \in hits : j <= i}) = k
        IN  /\ Len(last.ret) = Cardinality(hits)
            /\ \A k \in 1..Len(last.ret) : last.ret[k] = sigs[nth(k)]
            /\ Db = sigs
            /\ (sigs = default_signatures /\ last.arg.port = 80
                    /\ lower(last.arg.protocol) = s_tcp)
                   => last.ret # <<>> /\ last.ret[1].name = "HTTP"
            /\ (sigs = default_signatures /\ last.arg.port = 53
                    /\ lower(last.arg.protocol) = s_udp)
                   => last.ret # <<>> /\ last.ret[1].name = "DNS"

\* two entries of port 80 found under the protocol "TCP", the built-in first
C13_Witness ==
    /\ last.op = "find_by_port"
    /\ last.arg = [port |-> 80, protocol |-> s_TCP]
    /\ Len(last.ret) = 2
    /\ last.ret[1] = default_signatures[1]
    /\ last.ret[2] \in NewSignatures

\* C14: find_by_pattern(data) returns the entries that have a pattern list
\* which is not empty and holds a pattern occurring in the decoded sample, in
\* the order of the database and nothing else; an entry without patterns is
\* never returned, and every entry sharing a matching pattern is.
C14_FindByPattern ==
    last.op = "find_by_pattern" =>
        LET sigs == last.before
            text == decode(last.arg, "ignore")
            hits == {i \in DOMAIN sigs :
                        /\ Len(sigs[i].patterns) > 0
                        /\ \E p \in Range(sigs[i].patterns) : IsSubstring(p, text)}
            nth(k) == CHOOSE i \in hits : Cardinality({j \in hits : j <= i}) = k
        IN  /\ Len(last.ret) = Cardinality(hits)
            /\ \A k \in 1..Len(last.ret) : last.ret[k] = sigs[nth(k)]
            /\ \A k \in 1..Len(last.ret) : last.ret[k].patterns # <<>>
            /\ Db = sigs

\* the banner "220 ready" gave FTP and SMTP, which share the pattern "220 ",
\* in that order, from a database that holds entries without patterns
C14_Witness ==
    /\ last.op = "find_by_pattern"
    /\ last.arg = b_220_ready
    /\ Len(last.ret) = 2
    /\ last.ret[1].name = "FTP"
    /\ last.ret[2].name = "SMTP"
    /\ s_220 \in Range(last.ret[1].patterns) \cap Range(last.ret[2].patterns)
    /\ \E i \in DOMAIN last.before : last.before[i].patterns = <<>>

\* C15: after an import that succeeds, whatever the database held, its sequence
\* is the signatures built from the file's records, in the records' order; an
\* entry held before the import remains only when a record of the file builds it.
C15_ImportReplaces ==
    (last.op = "load_from_file" /\ last.ret = "ok") =>
        LET data == FileContent(last.arg)[1]
        IN  /\ Len(Db) = Len(data)
            /\ \A i \in DOMAIN data : Db[i] = from_dict(data[i])
            /\ \A sig \in Range(last.before) \cap Range(Db) :
                   \E i \in DOMAIN data : from_dict(data[i]) = sig

\* a database of built-in and added signatures imported a file of two records,
\* and holds none of its earlier entries
C15_Witness ==
    /\ last.op = "load_from_file"
    /\ last.arg = "wellformed"
    /\ last.ret = "ok"
    /\ CustomCount(last.before) = MaxCustom
    /\ \E i \in DOMAIN last.before : last.before[i] \in Range(default_signatures)
    /\ Len(Db) = 2
    /\ Range(last.before) \cap Range(Db) = {}

\* C16: the confidence of a DetectionResult is the greatest confidence given to
\* add_match so far, and 0.0 when add_match was never called; its matches are
\* the signatures given to add_match, in call order; a further add_match
\* never lowers the confidence.
C16_ConfidenceIsMax ==
    /\ [](last.op \in {"DetectionResult", "add_match"} =>
             /\ last.ret.confidence =
                    IF last.arg = <<>> THEN 0
                    ELSE Max({last.arg[i].confidence : i \in DOMAIN last.arg})
             /\ last.ret.matches = [i \in DOMAIN last.arg |-> last.arg[i].signature])
    /\ [][(last.op \in {"DetectionResult", "add_match"} /\ last'.op = "add_match")
             => last'.ret.confidence >= last.ret.confidence]_vars

\* a match of confidence 0.5 was added after one of confidence 1.0, and the
\* result's confidence is 1.0
C16_Witness ==
    /\ last.op = "add_match"
    /\ Len(last.arg) >= 2
    /\ last.arg[1].confidence = 100
    /\ last.arg[Len(last.arg)].confidence = 50
    /\ last.ret.confidence = 100
    /\ Len(last.ret.matches) = Len(last.arg)

\* C17: the list get_all_signatures returns equals the database's list at the
\* time of the call; appending to it, deleting from it or reversing it leaves
\* the database's list as it was, and add_signature / remove_signature on the
\* database leave a list returned earlier as it was.
C17_Snapshot ==
    [][/\ last'.op = "get_all_signatures" =>
              /\ snapshot' # None
              /\ signatures'[snapshot'[1]] = Db
              /\ Db' = Db
       /\ last'.op = "snapshot_change" => Db' = Db
       /\ (last'.op \in {"add_signature", "remove_signature"} /\ snapshot # None) =>
              /\ snapshot' = snapshot
              /\ signatures'[snapshot[1]] = signatures[snapshot[1]]]_vars

\* the returned list was reversed after an entry was added to the database:
\* the database holds the added entry in its place, the returned list does not
C17_Witness ==
    /\ last.op = "snapshot_change"
    /\ last.arg = "reverse"
    /\ snapshot # None
    /\ Db = last.before
    /\ CustomCount(Db) = MaxCustom
    /\ CustomCount(signatures[snapshot[1]]) = 0
    /\ Head(signatures[snapshot[1]]) = default_signatures[Len(default_signatures)]
    /\ Head(Db) = default_signatures[1]

\* the lookups and detections
ReadOnlyOps ==
    {"find_by_name", "find_by_port", "find_by_pattern", "get_all_signatures",
     "save_to_file", "detect_by_port", "detect_by_data", "detect",
     "detect_multiple"}

=============================================================================
